---- MODULE Spec2Model ----
(***************************************************************************)
(* RTCRtpSender (rtp_transceiver/rtp_sender/mod.rs): the send / stop /     *)
(* replace_track protocol of one sender whose methods are called from      *)
(* several tasks at once.  Every step is one access to shared state: a     *)
(* mutex critical section without an await inside it, one atomic load or   *)
(* store, or one external call.  The calls in flight are a bag of call     *)
(* records; a call record holds the call's position and its locals.        *)
(***************************************************************************)
EXTENDS Integers, FiniteSets, Sequences, Bags, TLC

\* ---- bounds ----
MaxInFlight == 2
MaxCalls == 3
MaxSsrc == 2

Ssrcs == 1..MaxSsrc

\* ---- values ----
None == "None"
Ok == "Ok"
ErrRTPSenderSendAlreadyCalled == "ErrRTPSenderSendAlreadyCalled"
ErrRTPSenderNewTrackHasIncorrectKind == "ErrRTPSenderNewTrackHasIncorrectKind"
ErrUnsupportedCodec == "unsupported codec"
ErrUnbind == "ErrTrackUnbind"
ErrClose == "ErrWriterClose"

Kinds == {"audio", "video"}
Tracks == {"ta", "tv"}
Kind(t) == IF t = "ta" THEN "audio" ELSE "video"

Id == "sender"
DefaultContext == [id |-> ""]
DefaultStreamInfo == [id |-> "", ssrc |-> 0, payload_type |-> 0]

VARIABLES
    track,              \* Mutex<Option<Arc<dyn TrackLocal>>>
    context,            \* Mutex<TrackLocalContext>
    stream_info,        \* Mutex<StreamInfo>
    send_called_tx,     \* Mutex<Option<mpsc::Sender<()>>>: "Some" or None
    stop_called_signal, \* Arc<AtomicBool>
    rtp_transceiver,    \* Mutex<Option<Weak<RTCRtpTransceiver>>>: <<>> or <<weak>>
    context_lock,       \* the context mutex is held across an await
    stream_info_lock,   \* the stream_info mutex is held across an await
    bound,              \* descriptors bound in the interceptor chain
    writer_closed,      \* srtp_stream.close() has been invoked
    inflight,           \* bag of the calls in progress
    last,               \* the call that returned last
    sendOk,             \* number of send() calls that returned Ok
    stop_returned,      \* a stop() call has returned
    stop_early,         \* a stop() call started before any send() returned Ok
    track_unbound,      \* Track::unbind has been invoked
    track_overlap,      \* the track was installed by a replace_track that
                        \* overlapped a send past its track check
    nUnbindLocal,       \* number of unbind_local_stream calls
    nClose,             \* number of srtp_stream.close() calls
    unbind_after_close, \* unbind_local_stream has been invoked after close()
    failed,             \* an external call has returned an error
    calls,              \* number of calls started
    dir,                \* a direction conversion: its input and its results
    auth                \* an auth_handle invocation: its inputs and results

sender == <<track, context, stream_info, send_called_tx, stop_called_signal>>
locks == <<context_lock, stream_info_lock>>
chain == <<bound, writer_closed, nUnbindLocal, nClose, unbind_after_close>>
hist == <<sendOk, stop_returned, stop_early, track_unbound, failed>>
pure == <<dir, auth>>
vars == <<sender, rtp_transceiver, locks, chain, inflight, last, hist, calls,
          track_overlap, pure>>

\* no conversion and no authentication under way
NoDir == [from |-> "none", raw |-> "", v |-> 0, d |-> <<>>, s |-> <<>>,
          back |-> <<>>]
NoAuth == [username |-> <<>>, realm |-> "", src_addr |-> "",
           shared_secret |-> "", now |-> [secs |-> 0, nanos |-> 0],
           res |-> <<>>, again |-> <<>>]

NoCall == [op |-> None, new |-> None, ssrc |-> 0, res |-> None, eff |-> {},
           after_send |-> FALSE, after_stop |-> FALSE]

\* A sender on which nothing has been called yet: no track, default context
\* and stream_info, the sent signal not consumed, the stopped flag clear, no
\* transceiver reference set.
SenderInit ==
    /\ track = None
    /\ context = DefaultContext
    /\ stream_info = DefaultStreamInfo
    /\ send_called_tx = "Some"
    /\ stop_called_signal = FALSE
    /\ rtp_transceiver = <<>>
    /\ context_lock = FALSE
    /\ stream_info_lock = FALSE
    /\ bound = {}
    /\ writer_closed = FALSE
    /\ inflight = EmptyBag
    /\ last = NoCall
    /\ sendOk = 0
    /\ stop_returned = FALSE
    /\ stop_early = FALSE
    /\ track_unbound = FALSE
    /\ track_overlap = FALSE
    /\ nUnbindLocal = 0
    /\ nClose = 0
    /\ unbind_after_close = FALSE
    /\ failed = FALSE
    /\ calls = 0

\* the sender as constructed, no conversion and no authentication under way
Init ==
    /\ SenderInit
    /\ dir = NoDir
    /\ auth = NoAuth

InFlight == BagToSet(inflight)

\* has_sent that never reports the taken sender half
has_sent_never == FALSE

\* has_sent (lines 233-236): the one-shot sender half has been taken
has_sent == send_called_tx = None

\* track() (lines 104-107)
track_get == track

\* create_stream_info as send calls it (lines 167-178): default codec
create_stream_info(id, ssrc) == [id |-> id, ssrc |-> ssrc, payload_type |-> 0]

\* Weak::upgrade on the stored transceiver reference (lines 118-119)
upgrade(tr) == IF tr # <<>> /\ tr[1].alive THEN tr[1].kind ELSE None

\* kind validation that compares against a reference that no longer resolves
kind_mismatch_stale(new, tr) ==
    /\ new # None
    /\ tr # <<>>
    /\ tr[1].kind # Kind(new)

\* kind validation of replace_track (lines 116-129)
kind_mismatch(new, tr) ==
    /\ new # None
    /\ tr # <<>>
    /\ upgrade(tr) # None
    /\ upgrade(tr) # Kind(new)

\* the record of a call of o that starts now
NewCall(o, new, ssrc, at) ==
    [op |-> o, pc |-> at, new |-> new, ssrc |-> ssrc, t |-> None,
     si |-> DefaultStreamInfo, eff |-> {},
     after_send |-> (sendOk > 0), after_stop |-> stop_returned]

\* a call starts
Begin ==
    /\ calls < MaxCalls
    /\ BagCardinality(inflight) < MaxInFlight
    /\ calls' = calls + 1

\* the call c goes on as d
Goto(c, d) ==
    /\ inflight' = (inflight (-) SetToBag({c})) (+) SetToBag({d})
    /\ UNCHANGED <<last, sendOk, stop_returned>>

\* the call c returns r to the application
Returns(c, r) ==
    /\ last' = [op |-> c.op, new |-> c.new, ssrc |-> c.ssrc, res |-> r,
                eff |-> c.eff, after_send |-> c.after_send,
                after_stop |-> c.after_stop]
    /\ sendOk' = IF c.op = "send" /\ r = Ok THEN sendOk + 1 ELSE sendOk
    /\ stop_returned' = (stop_returned \/ c.op = "stop")

\* the call c, in progress, takes its last step to d and returns r
Finish(c, d, r) ==
    /\ inflight' = inflight (-) SetToBag({c})
    /\ Returns(d, r)

\* the call c returns r in its first step
Refuse(c, r) ==
    /\ UNCHANGED inflight
    /\ Returns(c, r)

\* the call d is in progress after its first step
Enter(d) ==
    /\ inflight' = inflight (+) SetToBag({d})
    /\ UNCHANGED <<last, sendOk, stop_returned>>

At(c, l) == [c EXCEPT !.pc = l]
Did(c, e) == [c EXCEPT !.eff = @ \cup {e}]

\* ---- set_rtp_transceiver (lines 78-84) ----
set_rtp_transceiver(v) ==
    /\ calls < MaxCalls
    /\ calls' = calls + 1
    /\ rtp_transceiver' = v
    /\ UNCHANGED <<pure, sender, track_overlap, locks, chain, inflight, last, hist>>

\* the transceiver's owner drops its last strong reference: the Weak no
\* longer upgrades (line 119)
drop_transceiver ==
    /\ rtp_transceiver # <<>>
    /\ rtp_transceiver[1].alive
    /\ rtp_transceiver' = <<[rtp_transceiver[1] EXCEPT !.alive = FALSE]>>
    /\ UNCHANGED <<pure, sender, track_overlap, locks, chain, inflight, last, hist, calls>>

\* positions of a send() that has passed its track check (line 164)
SendPastCheck == {"sd186", "sd194", "sd198", "sd203"}

\* ---- replace_track (lines 112-149) ----
\* replace_track returns Ok: to the application, or into stop (line 222)
rt_return(c, d) ==
    IF c.op = "stop" THEN Goto(c, At(d, "st225")) ELSE Finish(c, d, Ok)

\* lines 112-129: kind validation under the rtp_transceiver lock
replace_track_call(new) ==
    /\ Begin
    /\ IF kind_mismatch(new, rtp_transceiver)
       THEN Refuse(NewCall("replace_track", new, 0, "rt131"),
                   ErrRTPSenderNewTrackHasIncorrectKind)
       ELSE Enter(NewCall("replace_track", new, 0, "rt131"))
    /\ UNCHANGED <<pure, sender, track_overlap, rtp_transceiver, locks, chain, stop_early,
                   track_unbound, failed>>

\* line 131 taking the unbind branch whatever has_sent returns
rt131_unchecked(c) ==
    /\ c.pc = "rt131"
    /\ Goto(c, At(c, "rt133"))
    /\ UNCHANGED <<pure, sender, track_overlap, rtp_transceiver, locks, chain, stop_early,
                   track_unbound, failed, calls>>

\* line 131
rt131(c) ==
    /\ c.pc = "rt131"
    /\ Goto(c, At(c, IF has_sent THEN "rt133" ELSE "rt142"))
    /\ UNCHANGED <<pure, sender, track_overlap, rtp_transceiver, locks, chain, stop_early,
                   track_unbound, failed, calls>>

\* lines 132-136: clone the current track under the track lock
rt133(c) ==
    /\ c.pc = "rt133"
    /\ Goto(c, [c EXCEPT !.t = track,
                         !.pc = IF track # None THEN "rt137" ELSE "rt142"])
    /\ UNCHANGED <<pure, sender, track_overlap, rtp_transceiver, locks, chain, stop_early,
                   track_unbound, failed, calls>>

\* line 137: take the context lock
rt137(c) ==
    /\ c.pc = "rt137"
    /\ ~context_lock
    /\ context_lock' = TRUE
    /\ Goto(c, At(c, "rt138"))
    /\ UNCHANGED <<pure, sender, track_overlap, rtp_transceiver, stream_info_lock, chain,
                   stop_early, track_unbound, failed, calls>>

\* line 138 without the `?`: the result of unbind is dropped
rt138_swallowed(c, r) ==
    /\ c.pc = "rt138"
    /\ context_lock' = FALSE
    /\ track_unbound' = TRUE
    /\ failed' = (failed \/ r # Ok)
    /\ Goto(c, [Did(c, "unbind") EXCEPT !.t = None, !.pc = "rt142"])
    /\ UNCHANGED <<pure, sender, track_overlap, rtp_transceiver, stream_info_lock, chain,
                   stop_early, calls>>

\* line 138 with the context guard kept when unbind fails
rt138_guard_leaked(c, r) ==
    /\ c.pc = "rt138"
    /\ context_lock' = (r # Ok)
    /\ track_unbound' = TRUE
    /\ failed' = (failed \/ r # Ok)
    /\ IF r = Ok
       THEN Goto(c, [Did(c, "unbind") EXCEPT !.t = None, !.pc = "rt142"])
       ELSE Finish(c, Did(c, "unbind"), r)
    /\ UNCHANGED <<pure, sender, track_overlap, rtp_transceiver, stream_info_lock, chain,
                   stop_early, calls>>

\* line 138: t.unbind(&context).await?, the guard dropped at line 139
rt138(c, r) ==
    /\ c.pc = "rt138"
    /\ context_lock' = FALSE
    /\ track_unbound' = TRUE
    /\ failed' = (failed \/ r # Ok)
    /\ IF r = Ok
       THEN Goto(c, [Did(c, "unbind") EXCEPT !.t = None, !.pc = "rt142"])
       ELSE Finish(c, Did(c, "unbind"), r)
    /\ UNCHANGED <<pure, sender, track_overlap, rtp_transceiver, stream_info_lock, chain,
                   stop_early, calls>>

\* line 142 left out: the new track is installed in every case
rt142_always(c) ==
    /\ c.pc = "rt142"
    /\ Goto(c, At(c, "rt143"))
    /\ UNCHANGED <<pure, sender, track_overlap, rtp_transceiver, locks, chain, stop_early,
                   track_unbound, failed, calls>>

\* line 142 with the negation dropped
rt142_inverted(c) ==
    /\ c.pc = "rt142"
    /\ IF has_sent \/ c.new = None
       THEN Goto(c, At(c, "rt143"))
       ELSE rt_return(c, c)
    /\ UNCHANGED <<pure, sender, track_overlap, rtp_transceiver, locks, chain, stop_early,
                   track_unbound, failed, calls>>

\* line 142
rt142(c) ==
    /\ c.pc = "rt142"
    /\ IF ~has_sent \/ c.new = None
       THEN Goto(c, At(c, "rt143"))
       ELSE rt_return(c, c)
    /\ UNCHANGED <<pure, sender, track_overlap, rtp_transceiver, locks, chain, stop_early,
                   track_unbound, failed, calls>>

\* lines 143-145: install the new track under the track lock
rt143(c) ==
    /\ c.pc = "rt143"
    /\ track' = c.new
    /\ track_overlap' = (/\ c.new # None
                         /\ ~c.after_send
                         /\ \/ has_sent
                            \/ \E d \in InFlight : d.pc \in SendPastCheck)
    /\ rt_return(c, Did(c, "set_track"))
    /\ UNCHANGED <<pure, context, stream_info, send_called_tx, stop_called_signal,
                   rtp_transceiver, locks, chain, stop_early, track_unbound,
                   failed, calls>>

\* ---- send (lines 152-208) ----
\* lines 153-155
send_call(ssrc) ==
    /\ Begin
    /\ IF has_sent
       THEN Refuse(NewCall("send", None, ssrc, "sd159"),
                   ErrRTPSenderSendAlreadyCalled)
       ELSE Enter(NewCall("send", None, ssrc, "sd159"))
    /\ UNCHANGED <<pure, sender, track_overlap, rtp_transceiver, locks, chain, stop_early,
                   track_unbound, failed>>

\* lines 158-181 without the track check of line 164
sd159_unchecked(c) ==
    /\ c.pc = "sd159"
    /\ Goto(c, [c EXCEPT !.si = create_stream_info(Id, c.ssrc),
                         !.pc = "sd186"])
    /\ UNCHANGED <<pure, sender, track_overlap, rtp_transceiver, locks, chain,
                   stop_early, track_unbound, failed, calls>>

\* lines 158-181 with the codec resolved after the stream is bound: the
\* bound track is found only after bind_local_stream
sd159_bind_first(c) ==
    /\ c.pc = "sd159"
    /\ IF track # None
       THEN /\ bound' = bound \cup {create_stream_info(Id, c.ssrc)}
            /\ Finish(c, Did(c, "bind_local_stream"), ErrUnsupportedCodec)
       ELSE /\ bound' = bound
            /\ Goto(c, [c EXCEPT !.si = create_stream_info(Id, c.ssrc),
                                 !.pc = "sd186"])
    /\ UNCHANGED <<pure, sender, track_overlap, rtp_transceiver, locks,
                   writer_closed, nUnbindLocal, nClose, unbind_after_close,
                   stop_early, track_unbound, failed, calls>>

\* lines 158-181: under the track lock, resolve the codec and build the
\* context and the stream_info
sd159(c) ==
    /\ c.pc = "sd159"
    /\ IF track # None
       THEN Finish(c, c, ErrUnsupportedCodec)
       ELSE Goto(c, [c EXCEPT !.si = create_stream_info(Id, c.ssrc),
                              !.pc = "sd186"])
    /\ UNCHANGED <<pure, sender, track_overlap, rtp_transceiver, locks, chain, stop_early,
                   track_unbound, failed, calls>>

\* lines 183-191: interceptor.bind_local_stream(&stream_info, writer).await
sd186(c) ==
    /\ c.pc = "sd186"
    /\ bound' = bound \cup {c.si}
    /\ Goto(c, At(Did(c, "bind_local_stream"), "sd194"))
    /\ UNCHANGED <<pure, sender, track_overlap, rtp_transceiver, locks, writer_closed, nUnbindLocal,
                   nClose, unbind_after_close, stop_early, track_unbound,
                   failed, calls>>

\* lines 193-196 left out: the context is never replaced
sd194_skipped(c) ==
    /\ c.pc = "sd194"
    /\ ~context_lock
    /\ Goto(c, At(c, "sd198"))
    /\ UNCHANGED <<pure, sender, track_overlap, rtp_transceiver, locks, chain, stop_early,
                   track_unbound, failed, calls>>

\* lines 193-196: *ctx = context
sd194(c) ==
    /\ c.pc = "sd194"
    /\ ~context_lock
    /\ context' = [id |-> Id]
    /\ Goto(c, At(Did(c, "set_context"), "sd198"))
    /\ UNCHANGED <<pure, track, track_overlap, stream_info, send_called_tx, stop_called_signal,
                   rtp_transceiver, locks, chain, stop_early, track_unbound,
                   failed, calls>>

\* lines 197-200: *si = stream_info
sd198(c) ==
    /\ c.pc = "sd198"
    /\ ~stream_info_lock
    /\ stream_info' = c.si
    /\ Goto(c, [Did(c, "set_stream_info") EXCEPT !.si = DefaultStreamInfo,
                                                 !.pc = "sd203"])
    /\ UNCHANGED <<pure, track, track_overlap, context, send_called_tx, stop_called_signal,
                   rtp_transceiver, locks, chain, stop_early, track_unbound,
                   failed, calls>>

\* lines 202-207: send_called_tx.take(), Ok(())
sd203(c) ==
    /\ c.pc = "sd203"
    /\ send_called_tx' = None
    /\ Finish(c, Did(c, "take"), Ok)
    /\ UNCHANGED <<pure, track, track_overlap, context, stream_info, stop_called_signal,
                   rtp_transceiver, locks, chain, stop_early, track_unbound,
                   failed, calls>>

\* stop without the early return of lines 212-214
stop_call_unguarded ==
    /\ Begin
    /\ stop_early' = (stop_early \/ sendOk = 0)
    /\ Enter(NewCall("stop", None, 0, "st215"))
    /\ UNCHANGED <<pure, sender, track_overlap, rtp_transceiver, locks, chain, track_unbound,
                   failed>>

\* ---- stop (lines 211-230) ----
\* lines 212-214: stop_called_signal.load
stop_call ==
    /\ Begin
    /\ stop_early' = (stop_early \/ sendOk = 0)
    /\ IF stop_called_signal
       THEN Refuse(NewCall("stop", None, 0, "st215"), Ok)
       ELSE Enter(NewCall("stop", None, 0, "st215"))
    /\ UNCHANGED <<pure, sender, track_overlap, rtp_transceiver, locks, chain, track_unbound,
                   failed>>

\* line 215 left out: the flag is never stored
st215_skipped(c) ==
    /\ c.pc = "st215"
    /\ Goto(c, At(Did(c, "set_stopped"), "st216"))
    /\ UNCHANGED <<pure, sender, track_overlap, rtp_transceiver, locks, chain, stop_early,
                   track_unbound, failed, calls>>

\* line 215 storing the negation of the flag
st215_toggle(c) ==
    /\ c.pc = "st215"
    /\ stop_called_signal' = ~stop_called_signal
    /\ Goto(c, At(Did(c, "set_stopped"), "st216"))
    /\ UNCHANGED <<pure, track, track_overlap, context, stream_info, send_called_tx,
                   rtp_transceiver, locks, chain, stop_early, track_unbound,
                   failed, calls>>

\* line 215: stop_called_signal.store(true)
st215(c) ==
    /\ c.pc = "st215"
    /\ stop_called_signal' = TRUE
    /\ Goto(c, At(Did(c, "set_stopped"), "st216"))
    /\ UNCHANGED <<pure, track, track_overlap, context, stream_info, send_called_tx,
                   rtp_transceiver, locks, chain, stop_early, track_unbound,
                   failed, calls>>

\* line 216: stop_called_tx.notify_waiters()
st216(c) ==
    /\ c.pc = "st216"
    /\ Goto(c, At(Did(c, "notify"), "st218"))
    /\ UNCHANGED <<pure, sender, track_overlap, rtp_transceiver, locks, chain, stop_early,
                   track_unbound, failed, calls>>

\* line 218 without the early return: teardown whether or not sent
st218_unchecked(c) ==
    /\ c.pc = "st218"
    /\ Goto(c, At(c, "rt131"))
    /\ UNCHANGED <<pure, sender, track_overlap, rtp_transceiver, locks, chain, stop_early,
                   track_unbound, failed, calls>>

\* lines 218-222: never sent: Ok; else replace_track(None), whose
\* validation (line 116) is skipped for None
st218(c) ==
    /\ c.pc = "st218"
    /\ IF ~has_sent
       THEN Finish(c, c, Ok)
       ELSE Goto(c, At(c, "rt131"))
    /\ UNCHANGED <<pure, sender, track_overlap, rtp_transceiver, locks, chain, stop_early,
                   track_unbound, failed, calls>>

\* line 225: take the stream_info lock
st225(c) ==
    /\ c.pc = "st225"
    /\ ~stream_info_lock
    /\ stream_info_lock' = TRUE
    /\ Goto(c, At(c, "st226"))
    /\ UNCHANGED <<pure, sender, track_overlap, rtp_transceiver, context_lock, chain, stop_early,
                   track_unbound, failed, calls>>

\* lines 226-227: interceptor.unbind_local_stream(&*stream_info).await
st226(c) ==
    /\ c.pc = "st226"
    /\ bound' = bound \ {stream_info}
    /\ nUnbindLocal' = nUnbindLocal + 1
    /\ unbind_after_close' = (unbind_after_close \/ writer_closed)
    /\ stream_info_lock' = FALSE
    /\ Goto(c, At(Did(c, "unbind_local_stream"), "st229"))
    /\ UNCHANGED <<pure, sender, track_overlap, rtp_transceiver, context_lock, writer_closed, nClose,
                   stop_early, track_unbound, failed, calls>>

\* line 229: self.srtp_stream.close().await
st229(c, r) ==
    /\ c.pc = "st229"
    /\ writer_closed' = TRUE
    /\ nClose' = nClose + 1
    /\ failed' = (failed \/ r # Ok)
    /\ Finish(c, Did(c, "close"), r)
    /\ UNCHANGED <<pure, sender, track_overlap, rtp_transceiver, locks, bound, nUnbindLocal,
                   unbind_after_close, stop_early, track_unbound, calls>>

\* Option<Weak<RTCRtpTransceiver>>: <<>> is None, <<w>> is Some(w)
TransceiverRefs == {<<>>} \cup {<<w>> : w \in [kind : Kinds, alive : {TRUE}]}

Next ==
    \/ \E v \in TransceiverRefs : set_rtp_transceiver(v)
    \/ drop_transceiver
    \/ \E new \in Tracks \cup {None} : replace_track_call(new)
    \/ \E c \in InFlight : rt131(c)
    \/ \E c \in InFlight : rt133(c)
    \/ \E c \in InFlight : rt137(c)
    \/ \E c \in InFlight, r \in {Ok, ErrUnbind} : rt138(c, r)
    \/ \E c \in InFlight : rt142(c)
    \/ \E c \in InFlight : rt143(c)
    \/ \E ssrc \in Ssrcs : send_call(ssrc)
    \/ \E c \in InFlight : sd159(c)
    \/ \E c \in InFlight : sd186(c)
    \/ \E c \in InFlight : sd194(c)
    \/ \E c \in InFlight : sd198(c)
    \/ \E c \in InFlight : sd203(c)
    \/ stop_call
    \/ \E c \in InFlight : st215(c)
    \/ \E c \in InFlight : st216(c)
    \/ \E c \in InFlight : st218(c)
    \/ \E c \in InFlight : st225(c)
    \/ \E c \in InFlight : st226(c)
    \/ \E c \in InFlight, r \in {Ok, ErrClose} : st229(c, r)

Spec == Init /\ [][Next]_vars

\* ---- RTCRtpTransceiverDirection (rtp_transceiver_direction.rs) ----
Unspecified == [RTCRtpTransceiverDirection |-> "Unspecified"]
Sendrecv == [RTCRtpTransceiverDirection |-> "Sendrecv"]
Sendonly == [RTCRtpTransceiverDirection |-> "Sendonly"]
Recvonly == [RTCRtpTransceiverDirection |-> "Recvonly"]
Inactive == [RTCRtpTransceiverDirection |-> "Inactive"]

RTP_TRANSCEIVER_DIRECTION_SENDRECV_STR == "sendrecv"
RTP_TRANSCEIVER_DIRECTION_SENDONLY_STR == "sendonly"
RTP_TRANSCEIVER_DIRECTION_RECVONLY_STR == "recvonly"
RTP_TRANSCEIVER_DIRECTION_INACTIVE_STR == "inactive"

\* the four named directions and their names
Named == {Sendrecv, Sendonly, Recvonly, Inactive}
Names == {RTP_TRANSCEIVER_DIRECTION_SENDRECV_STR,
          RTP_TRANSCEIVER_DIRECTION_SENDONLY_STR,
          RTP_TRANSCEIVER_DIRECTION_RECVONLY_STR,
          RTP_TRANSCEIVER_DIRECTION_INACTIVE_STR}

\* crate::webrtc::UNSPECIFIED_STR, the display form of Unspecified
UNSPECIFIED_STR == "Unspecified"

\* a u8
U8Max == 255

\* From<&str> with the arms of sendonly and recvonly exchanged
from_str_swapped(raw) ==
    CASE raw = RTP_TRANSCEIVER_DIRECTION_SENDRECV_STR -> Sendrecv
      [] raw = RTP_TRANSCEIVER_DIRECTION_SENDONLY_STR -> Recvonly
      [] raw = RTP_TRANSCEIVER_DIRECTION_RECVONLY_STR -> Sendonly
      [] raw = RTP_TRANSCEIVER_DIRECTION_INACTIVE_STR -> Inactive
      [] OTHER -> Unspecified

\* From<&str> (lines 30-40)
from_str(raw) ==
    CASE raw = RTP_TRANSCEIVER_DIRECTION_SENDRECV_STR -> Sendrecv
      [] raw = RTP_TRANSCEIVER_DIRECTION_SENDONLY_STR -> Sendonly
      [] raw = RTP_TRANSCEIVER_DIRECTION_RECVONLY_STR -> Recvonly
      [] raw = RTP_TRANSCEIVER_DIRECTION_INACTIVE_STR -> Inactive
      [] OTHER -> Unspecified

\* From<u8> (lines 42-52)
from_u8(v) ==
    CASE v = 1 -> Sendrecv
      [] v = 2 -> Sendonly
      [] v = 3 -> Recvonly
      [] v = 4 -> Inactive
      [] OTHER -> Unspecified

\* Display (lines 54-72)
fmt(d) ==
    CASE d = Sendrecv -> RTP_TRANSCEIVER_DIRECTION_SENDRECV_STR
      [] d = Sendonly -> RTP_TRANSCEIVER_DIRECTION_SENDONLY_STR
      [] d = Recvonly -> RTP_TRANSCEIVER_DIRECTION_RECVONLY_STR
      [] d = Inactive -> RTP_TRANSCEIVER_DIRECTION_INACTIVE_STR
      [] OTHER -> UNSPECIFIED_STR

\* raw strings handed to From<&str>: the four names, and strings that are
\* none of them (other case, padding, a prefix, the empty string, the
\* variant names, the placeholder)
RawStrings ==
    {"sendrecv", "sendonly", "recvonly", "inactive",
     "", "Sendrecv", "SENDONLY", " recvonly", "inactive ", "send",
     "sendrecvsendrecv", "Inactive", "unspecified", "Unspecified"}

\* a conversion starts from a raw string or from a u8
DirInputs ==
    {[NoDir EXCEPT !.from = "str", !.raw = raw] : raw \in RawStrings}
        \cup {[NoDir EXCEPT !.from = "u8", !.v = v] : v \in 0..U8Max}

InitDir ==
    /\ SenderInit
    /\ dir \in DirInputs
    /\ auth = NoAuth

rtp_sender == <<sender, rtp_transceiver, locks, chain, inflight, last, hist,
                calls, track_overlap>>

\* RTCRtpTransceiverDirection::from(raw)
dir_from_str ==
    /\ dir.from = "str"
    /\ dir.d = <<>>
    /\ dir' = [dir EXCEPT !.d = <<from_str(dir.raw)>>]
    /\ UNCHANGED <<rtp_sender, auth>>

\* RTCRtpTransceiverDirection::from(v)
dir_from_u8 ==
    /\ dir.from = "u8"
    /\ dir.d = <<>>
    /\ dir' = [dir EXCEPT !.d = <<from_u8(dir.v)>>]
    /\ UNCHANGED <<rtp_sender, auth>>

\* d.to_string()
dir_fmt ==
    /\ dir.d # <<>>
    /\ dir.s = <<>>
    /\ dir' = [dir EXCEPT !.s = <<fmt(dir.d[1])>>]
    /\ UNCHANGED <<rtp_sender, auth>>

\* RTCRtpTransceiverDirection::from(d.to_string().as_str())
dir_back ==
    /\ dir.s # <<>>
    /\ dir.back = <<>>
    /\ dir' = [dir EXCEPT !.back = <<from_str(dir.s[1])>>]
    /\ UNCHANGED <<rtp_sender, auth>>

NextDir == dir_from_str \/ dir_from_u8 \/ dir_fmt \/ dir_back

SpecDir == InitDir /\ [][NextDir]_vars

\* ---- LongTermAuthHandler (crates/turn/auth/mod.rs) ----
MaxUserLen == 2
MaxNow == 3

\* characters of a username: digits, a sign, a letter
Chars == {"0", "1", "3", "+", "-", "x"}
Usernames == UNION {[1..n -> Chars] : n \in 0..MaxUserLen}
Realms == {<<"r">>, <<"w", "r">>}
Secrets == {<<"k">>, <<"s">>}
Addrs == {"10.0.0.1:3478", "10.0.0.2:5000"}

\* Duration and the time since UNIX_EPOCH: whole seconds and nanoseconds
Durations == [secs : 0..MaxNow, nanos : {0, 1}]

Digits == {"0", "1", "2", "3", "4", "5", "6", "7", "8", "9"}
to_digit(ch) ==
    CASE ch = "0" -> 0 [] ch = "1" -> 1 [] ch = "2" -> 2 [] ch = "3" -> 3
      [] ch = "4" -> 4 [] ch = "5" -> 5 [] ch = "6" -> 6 [] ch = "7" -> 7
      [] ch = "8" -> 8 [] ch = "9" -> 9

RECURSIVE digits_value(_)
digits_value(s) ==
    IF s = <<>> THEN 0
    ELSE digits_value(SubSeq(s, 1, Len(s) - 1)) * 10 + to_digit(s[Len(s)])

\* username.parse::<u64>() (line 47): an optional "+", then one or more
\* decimal digits and nothing else; <<>> is Err, <<n>> is Ok(n)
parse_u64(s) ==
    LET body == IF s # <<>> /\ s[1] = "+" THEN Tail(s) ELSE s
    IN  IF body = <<>> \/ \E i \in 1..Len(body) : body[i] \notin Digits
        THEN <<>>
        ELSE <<digits_value(body)>>

\* Duration::from_secs (line 47)
from_secs(n) == [secs |-> n, nanos |-> 0]

\* Duration's PartialOrd (line 48): seconds first, then nanoseconds
duration_lt(a, b) ==
    \/ a.secs < b.secs
    \/ a.secs = b.secs /\ a.nanos < b.nanos

\* long_term_credentials (lines 16-23): base64 of the HMAC-SHA1 of the
\* username under the shared secret, kept as a term
long_term_credentials(username, shared_secret) ==
    <<"base64(", "hmac_sha1(">> \o shared_secret \o <<",">> \o username
        \o <<")", ")">>

\* generate_auth_key (lines 26-32): MD5 of "username:realm:password"
generate_auth_key(username, realm, password) ==
    [md5 |-> username \o <<":">> \o realm \o <<":">> \o password]

AuthErr(e) == [ok |-> FALSE, key |-> <<>>, err |-> e]
AuthOk(k) == [ok |-> TRUE, key |-> <<k>>, err |-> ""]

\* auth_handle with `<=` for `<` at line 48
auth_handle_le(shared_secret, username, realm, src_addr, now) ==
    LET n == parse_u64(username)
    IN  IF n = <<>> THEN AuthErr("ParseInt")
        ELSE IF ~duration_lt(now, from_secs(n[1]))
        THEN AuthErr("Expired time-windowed username")
        ELSE AuthOk(generate_auth_key(username, realm,
                        long_term_credentials(username, shared_secret)))

\* auth_handle (lines 39-57); now is SystemTime::now() since UNIX_EPOCH
auth_handle(shared_secret, username, realm, src_addr, now) ==
    LET n == parse_u64(username)
    IN  IF n = <<>> THEN AuthErr("ParseInt")
        ELSE IF duration_lt(from_secs(n[1]), now)
        THEN AuthErr("Expired time-windowed username")
        ELSE AuthOk(generate_auth_key(username, realm,
                        long_term_credentials(username, shared_secret)))

AuthInputs ==
    {[NoAuth EXCEPT !.username = u, !.realm = r, !.src_addr = a,
                    !.shared_secret = k, !.now = n] :
        u \in Usernames, r \in Realms, a \in Addrs, k \in Secrets,
        n \in Durations}

InitAuth ==
    /\ SenderInit
    /\ dir = NoDir
    /\ auth \in AuthInputs

\* handler.auth_handle(username, realm, src_addr)
auth_call ==
    /\ auth.res = <<>>
    /\ auth' = [auth EXCEPT !.res = <<auth_handle(auth.shared_secret,
                     auth.username, auth.realm, auth.src_addr, auth.now)>>]
    /\ UNCHANGED <<rtp_sender, dir>>

\* the same handler asked again for the same username and realm, from
\* src_addr at the time now
auth_again(src_addr, now) ==
    /\ auth.res # <<>>
    /\ auth.again = <<>>
    /\ auth' = [auth EXCEPT !.again =
                    <<[src_addr |-> src_addr, now |-> now,
                       res |-> auth_handle(auth.shared_secret, auth.username,
                                           auth.realm, src_addr, now)]>>]
    /\ UNCHANGED <<rtp_sender, dir>>

NextAuth ==
    \/ auth_call
    \/ \E a \in Addrs, n \in Durations : auth_again(a, n)

SpecAuth == InitAuth /\ [][NextAuth]_vars

\* one step of a call in progress: the executor resumes its future at an
\* await point (a lock acquired, an external call returned)
Step ==
    \E c \in InFlight :
        \/ rt131(c) \/ rt133(c) \/ rt137(c) \/ rt142(c) \/ rt143(c)
        \/ \E r \in {Ok, ErrUnbind} : rt138(c, r)
        \/ sd159(c) \/ sd186(c) \/ sd194(c) \/ sd198(c) \/ sd203(c)
        \/ st215(c) \/ st216(c) \/ st218(c) \/ st225(c) \/ st226(c)
        \/ \E r \in {Ok, ErrClose} : st229(c, r)

\* the executor keeps polling futures that can make progress, and every
\* external call (unbind, bind_local_stream, unbind_local_stream, close)
\* returns
FairSpec == Spec /\ WF_vars(Step)

\* positions at which a call waits for a lock that is held across an await
LockWaits == {"rt137", "sd194", "sd198", "st225"}

\* the number of calls in progress at position l
NumAt(l) ==
    LET at == {d \in InFlight : d.pc = l}
    IN  IF at = {} THEN 0
        ELSE BagCardinality([c \in at |-> CopiesIn(c, inflight)])

TypeOK ==
    /\ track \in Tracks \cup {None}
    /\ send_called_tx \in {"Some", None}
    /\ stop_called_signal \in BOOLEAN
    /\ context_lock \in BOOLEAN
    /\ stream_info_lock \in BOOLEAN
    /\ calls \in 0..MaxCalls
    /\ BagCardinality(inflight) <= MaxInFlight

\* ---- properties ----
Idle == inflight = EmptyBag
Done == InFlight \cup {last}

\* C1: send() calls that overlap on a fresh sender with no track bound:
\* exactly one returns Ok (never two, never zero) and every other one
\* returns ErrRTPSenderSendAlreadyCalled.
C1_ExactlyOneSendSucceeds ==
    /\ sendOk <= 1
    /\ (last.op = "send" /\ last.res # ErrUnsupportedCodec)
          => (sendOk >= 1 /\ last.res \in {Ok, ErrRTPSenderSendAlreadyCalled})

\* C2: stop() calls on a sender that has sent, no external call failing:
\* unbind_local_stream and close are each invoked exactly once, by one
\* caller, and every stop() returns Ok.
C2_TeardownExactlyOnce ==
    (~failed /\ ~stop_early) =>
        /\ nUnbindLocal <= 1
        /\ nClose <= 1
        /\ last.op = "stop" => last.res = Ok
        /\ (stop_returned /\ \A c \in InFlight : c.op # "stop")
              => (nUnbindLocal = 1 /\ nClose = 1)

\* C3: a send() started after a send() has returned Ok returns
\* ErrRTPSenderSendAlreadyCalled in its first step and has done nothing: no
\* bind_local_stream, no write of context, stream_info, track or sent flag.
C3_SendAfterSuccessRefused ==
    /\ \A c \in InFlight : ~(c.op = "send" /\ c.after_send)
    /\ (last.op = "send" /\ last.after_send)
          => (last.res = ErrRTPSenderSendAlreadyCalled /\ last.eff = {})

C3_Witness ==
    /\ last.op = "send"
    /\ last.after_send
    /\ last.res = ErrRTPSenderSendAlreadyCalled
    /\ stream_info # DefaultStreamInfo

\* C4: a stop() started after a stop() has returned (Ok or an error) returns
\* Ok in its first step and has done nothing: no store, no broadcast, no
\* track unbind, no unbind_local_stream, no close.
C4_StopAfterStopNoOp ==
    /\ \A c \in InFlight : ~(c.op = "stop" /\ c.after_stop)
    /\ (last.op = "stop" /\ last.after_stop)
          => (last.res = Ok /\ last.eff = {})

C4_Witness ==
    /\ last.op = "stop"
    /\ last.after_stop
    /\ last.res = Ok
    /\ failed
    /\ nClose = 1

\* C5: a stop() that returns while no send() has succeeded returns Ok with
\* the stopped flag set, having done nothing but the store and the broadcast
\* (or nothing, the flag being set already): no track unbind, no
\* unbind_local_stream, no close, no write of the track.
C5_StopBeforeSend ==
    (last.op = "stop" /\ ~has_sent) =>
        /\ last.res = Ok
        /\ stop_called_signal
        /\ last.eff \in {{}, {"set_stopped", "notify"}}
        /\ ~track_unbound
        /\ nUnbindLocal = 0
        /\ nClose = 0
        /\ ~writer_closed

C5_Witness ==
    /\ last.op = "stop"
    /\ ~has_sent
    /\ last.eff = {"set_stopped", "notify"}
    /\ last.res = Ok
    /\ track_get # None

\* C6: a replace_track(new) that passes or skips kind validation and
\* returns while no send() has succeeded returns Ok, has called no unbind,
\* and track() now returns new (None included).
C6_ReplaceBeforeSend ==
    (/\ last.op = "replace_track"
     /\ ~has_sent
     /\ last.res # ErrRTPSenderNewTrackHasIncorrectKind) =>
        /\ last.res = Ok
        /\ "unbind" \notin last.eff
        /\ ~track_unbound
        /\ track_get = last.new

C6_Witness ==
    /\ last.op = "replace_track"
    /\ ~has_sent
    /\ last.res = Ok
    /\ last.new = None
    /\ track_get = None
    /\ calls = MaxCalls

\* C7: replace_track(new) is rejected with
\* ErrRTPSenderNewTrackHasIncorrectKind exactly when new is Some(t), the
\* weak transceiver reference is set and resolves, and its kind differs from
\* t.kind(); the rejected call changes no track and calls no unbind.  An
\* absent or dead reference, or new = None, is never rejected for kind.
C7_KindValidation ==
    /\ [](last.res = ErrRTPSenderNewTrackHasIncorrectKind
            => (last.op = "replace_track" /\ last.new # None /\ last.eff = {}))
    /\ [][\A new \in Tracks \cup {None} :
            replace_track_call(new) =>
              LET rejected == inflight' = inflight
                  differs == /\ new # None
                             /\ Len(rtp_transceiver) = 1
                             /\ rtp_transceiver[1].alive
                             /\ rtp_transceiver[1].kind # Kind(new)
              IN  /\ rejected <=> differs
                  /\ rejected =>
                        /\ last'.res = ErrRTPSenderNewTrackHasIncorrectKind
                        /\ last'.new = new
                        /\ track' = track
                        /\ track_unbound' = track_unbound]_vars

C7_Witness ==
    /\ last.op = "replace_track"
    /\ last.res = ErrRTPSenderNewTrackHasIncorrectKind
    /\ track_get # None
    /\ track_get # last.new

\* C8: Track::unbind is invoked, or about to be under the context lock,
\* only when a send() has already returned Ok.
C8_UnbindOnlyAfterSend ==
    (\/ track_unbound
     \/ \E c \in Done : "unbind" \in c.eff
     \/ \E c \in InFlight : c.pc \in {"rt137", "rt138"})
        => (sendOk >= 1 /\ has_sent)

C8_Witness ==
    /\ track_unbound
    /\ \E c \in Done : "unbind" \in c.eff

\* C9: the sent flag and the stopped flag never go back to false, no step
\* changes both, the sent flag is changed only by a step of a send() call
\* and the stopped flag only by a step of a stop() call.
C9_FlagsMonotonicIndependent ==
    [][/\ has_sent => has_sent'
       /\ stop_called_signal => stop_called_signal'
       /\ ~(has_sent' # has_sent /\ stop_called_signal' # stop_called_signal)
       /\ has_sent' # has_sent =>
            \E c \in InFlight : /\ c.op = "send"
                                 /\ CopiesIn(c, inflight') < CopiesIn(c, inflight)
       /\ stop_called_signal' # stop_called_signal =>
            \E c \in InFlight : /\ c.op = "stop"
                                 /\ CopiesIn(c, inflight') < CopiesIn(c, inflight)
      ]_vars

C9_Witness ==
    /\ has_sent
    /\ stop_called_signal
    /\ Idle
    /\ nClose = 1

\* C10: with no call in progress, the stopped flag set, a send() succeeded
\* and no external call failed, no descriptor is bound in the interceptor
\* chain and the writer has been closed.
C10_StoppedSenderReleased ==
    (Idle /\ stop_called_signal /\ has_sent /\ ~failed)
        => (bound = {} /\ writer_closed)

\* C11: no unbind_local_stream call on the interceptor chain is invoked
\* after the writer's close has been invoked.
C11_UnbindBeforeClose == ~unbind_after_close

\* C12: a stop() call that is about to close, or has closed, the writer has
\* itself stored the stopped flag and issued the broadcast before; the
\* writer is never closed while the stopped flag is false.
C12_StoppedBeforeClose ==
    /\ \A c \in Done :
          (c.op = "stop" /\ "close" \in c.eff)
            => {"set_stopped", "notify"} \subseteq c.eff
    /\ \A c \in InFlight :
          c.pc = "st229"
            => (stop_called_signal /\ {"set_stopped", "notify"} \subseteq c.eff)
    /\ writer_closed => stop_called_signal

C12_Witness ==
    /\ writer_closed
    /\ last.op = "stop"
    /\ "close" \in last.eff

\* C13: whenever has_sent() is true, a send() has returned Ok after doing
\* all its earlier steps (bind_local_stream, the context write, the
\* stream_info write), so the context and the stream_info are values built
\* by a send, never the pre-send ones, and until a stop() unbinds it the
\* descriptor in stream_info is bound in the interceptor chain.
C13_SentAfterBindAndReplace ==
    /\ has_sent =>
          /\ sendOk >= 1
          /\ context = [id |-> Id]
          /\ context # DefaultContext
          /\ stream_info \in {create_stream_info(Id, n) : n \in Ssrcs}
          /\ stream_info # DefaultStreamInfo
          /\ nUnbindLocal = 0 => stream_info \in bound
    /\ \A c \in Done :
          (c.op = "send" /\ "take" \in c.eff)
            => {"bind_local_stream", "set_context", "set_stream_info"}
                 \subseteq c.eff

C13_Witness ==
    /\ has_sent
    /\ last.op = "send"
    /\ last.res = Ok
    /\ stream_info = create_stream_info(Id, last.ssrc)
    /\ stream_info \in bound

\* a replace_track(Some(t)) that started after a send() had returned Ok
\* and passed kind validation has returned
ReplacedSomeAfterSend ==
    /\ last.op = "replace_track"
    /\ last.new # None
    /\ last.after_send
    /\ last.res # ErrRTPSenderNewTrackHasIncorrectKind

C20_SentImpliesNoTrack == has_sent => track_get = None

\* C20 amended: whenever has_sent() is true the current track is None,
\* unless it was installed by a replace_track(Some) call that overlapped a
\* successful send: the call started before any send had returned Ok and
\* ran line 144 after a send had passed its track check at line 164.  A
\* replace_track started after a successful send never installs Some.
C20_SentTrackOnlyByOverlap ==
    /\ (has_sent /\ track_get # None) => track_overlap
    /\ \A c \in Done :
          (c.op = "replace_track" /\ c.after_send /\ c.new # None)
            => "set_track" \notin c.eff

C20_Witness ==
    /\ has_sent
    /\ track_get # None
    /\ track_overlap
    /\ Idle

\* C17: a send() that finds a track bound at its track check (line 164)
\* returns the unsupported-codec error and has no effect: bind_local_stream
\* is not invoked, the sender's fields (context, stream_info, the sent
\* signal, the track) and the transform chain are as before, so has_sent()
\* is unchanged and the sender is in the state it was in before the call.
C17_BoundTrackSendFails ==
    /\ [](\A c \in Done :
            (c.op = "send" /\ "res" \in DOMAIN c /\ c.res = ErrUnsupportedCodec)
                => c.eff = {})
    /\ [][\A c \in InFlight :
            (sd159(c) /\ track # None) =>
                /\ last'.op = "send"
                /\ last'.res = ErrUnsupportedCodec
                /\ last'.eff = {}
                /\ UNCHANGED <<sender, locks, chain>>
                /\ has_sent' = has_sent]_vars

C17_Witness ==
    /\ last.op = "send"
    /\ last.res = ErrUnsupportedCodec
    /\ track_get # None
    /\ ~has_sent
    /\ bound = {}
    /\ context = DefaultContext
    /\ stream_info = DefaultStreamInfo

\* C18: a stop() on a sent sender returns the error of the track unbind
\* inside replace_track(None) without invoking unbind_local_stream or close;
\* otherwise it invokes unbind_local_stream, then close, and returns exactly
\* what close returned. A failing unbind in replace_track is returned as it
\* is and the current track is left unchanged.
C18_FirstErrorPropagates ==
    /\ []((last.op = "stop" /\ last.after_send /\ "set_stopped" \in last.eff) =>
            \/ /\ last.res = ErrUnbind
               /\ "unbind" \in last.eff
               /\ last.eff \cap {"unbind_local_stream", "close", "set_track"} = {}
            \/ /\ last.res \in {Ok, ErrClose}
               /\ {"set_track", "unbind_local_stream", "close"} \subseteq last.eff)
    /\ [](\A c \in InFlight :
            /\ c.pc \in {"st225", "st226"} =>
                  c.eff \cap {"unbind_local_stream", "close"} = {}
            /\ c.pc = "st229" =>
                  ("unbind_local_stream" \in c.eff /\ "close" \notin c.eff))
    /\ [](last.res = ErrUnbind => "set_track" \notin last.eff)
    /\ [][\A c \in InFlight :
            /\ \A r \in {Ok, ErrClose} : st229(c, r) => last'.res = r
            /\ rt138(c, ErrUnbind) =>
                  /\ last'.op = c.op
                  /\ last'.res = ErrUnbind
                  /\ "set_track" \notin last'.eff
                  /\ track' = track
                  /\ UNCHANGED <<bound, writer_closed, nUnbindLocal, nClose>>]_vars

C18_Witness ==
    /\ last.op = "stop"
    /\ last.after_send
    /\ last.res = ErrUnbind
    /\ track_get # None
    /\ nUnbindLocal = 0
    /\ nClose = 0

\* a stop() on a sent sender that went through the whole teardown and
\* returned the error of close
C18_WitnessClose ==
    /\ last.op = "stop"
    /\ last.after_send
    /\ last.res = ErrClose
    /\ {"unbind_local_stream", "close"} \subseteq last.eff

\* C19: no interleaving of calls on one sender deadlocks. A sender lock held
\* across an await has exactly one holder, the holder is at the external
\* call made under that lock and so waits for no other sender lock; whenever
\* calls are in progress one of them can take a step; and, every external
\* call returning, every call in progress eventually returns.
C19_NoDeadlock ==
    /\ [](/\ NumAt("rt138") = (IF context_lock THEN 1 ELSE 0)
          /\ NumAt("st226") = (IF stream_info_lock THEN 1 ELSE 0)
          /\ \A c \in InFlight :
                /\ c.pc = "rt138" => ENABLED rt138(c, Ok)
                /\ c.pc = "st226" => ENABLED st226(c)
          /\ ~Idle => ENABLED Step)
    /\ (~Idle ~> Idle)

\* a send() waits for the stream_info lock while a stop() holds it across
\* unbind_local_stream
C19_Witness ==
    /\ stream_info_lock
    /\ NumAt("st226") = 1
    /\ NumAt("sd198") = 1
    /\ ~ENABLED (\E c \in InFlight : sd198(c))

\* C14: for each of Sendrecv, Sendonly, Recvonly, Inactive, parsing its
\* display string yields it again and displaying the parse of its name
\* yields the name; every other string parses to Unspecified, every u8
\* outside 1..4 converts to Unspecified, and Unspecified displays as one
\* placeholder string that parses back to Unspecified.
C14_DirectionRoundTrip ==
    /\ dir.d # <<>> =>
          /\ dir.d[1] \in Named \cup {Unspecified}
          /\ (dir.from = "str" /\ dir.raw \notin Names) => dir.d[1] = Unspecified
          /\ (dir.from = "str" /\ dir.raw \in Names) => dir.d[1] \in Named
          /\ (dir.from = "u8" /\ dir.v \notin 1..4) => dir.d[1] = Unspecified
          /\ (dir.from = "u8" /\ dir.v \in 1..4) => dir.d[1] \in Named
    /\ dir.s # <<>> =>
          /\ (dir.from = "str" /\ dir.raw \in Names) => dir.s[1] = dir.raw
          /\ dir.d[1] \in Named => dir.s[1] \in Names
          /\ dir.d[1] = Unspecified =>
                (dir.s[1] = UNSPECIFIED_STR /\ dir.s[1] \notin Names)
    /\ dir.back # <<>> => dir.back = dir.d
    /\ \A e \in Named : from_str(fmt(e)) = e
    /\ \A n \in Names : fmt(from_str(n)) = n
    /\ Cardinality({fmt(e) : e \in Named}) = 4

\* a name parsed, displayed and parsed again
C14_Witness ==
    /\ dir.from = "str"
    /\ dir.raw = "recvonly"
    /\ dir.d = <<Recvonly>>
    /\ dir.s = <<"recvonly">>
    /\ dir.back = <<Recvonly>>

\* C15: auth_handle returns an error and no key when the username does not
\* parse as an unsigned integer or its value in seconds is earlier than the
\* current time; otherwise it returns a key, and two invocations that both
\* return a key for the same username, realm and shared secret return the
\* same key whatever the source address and the current time.
C15_AuthHandle ==
    /\ auth.res # <<>> =>
          LET r == auth.res[1]
              n == parse_u64(auth.username)
              earlier == /\ n # <<>>
                         /\ \/ n[1] < auth.now.secs
                            \/ n[1] = auth.now.secs /\ auth.now.nanos > 0
          IN  /\ (n = <<>> \/ earlier) => (~r.ok /\ r.key = <<>>)
              /\ (n # <<>> /\ ~earlier) => (r.ok /\ Len(r.key) = 1)
              /\ n # <<>> <=>
                    /\ auth.username # <<>>
                    /\ auth.username # <<"+">>
                    /\ \A i \in 1..Len(auth.username) :
                          \/ auth.username[i] \in Digits
                          \/ i = 1 /\ auth.username[i] = "+"
    /\ auth.again # <<>> =>
          LET r == auth.res[1]
              q == auth.again[1].res
          IN  (r.ok /\ q.ok) => r.key = q.key

\* a key returned for a username equal to the current second, and the same
\* key returned to another source address at an earlier time
C15_Witness ==
    /\ auth.username = <<"+", "3">>
    /\ auth.now = [secs |-> 3, nanos |-> 0]
    /\ auth.res # <<>>
    /\ auth.res[1].ok
    /\ auth.again # <<>>
    /\ auth.again[1].src_addr # auth.src_addr
    /\ auth.again[1].now # auth.now
    /\ auth.again[1].res = auth.res[1]

====
